---- MODULE Spec2Model ----
(***************************************************************************)
(* Remote command server: the length-prefixed framing codec, the message   *)
(* model and the per-connection session loop (protocol_utils.py,           *)
(* function.py, server.py).                                                *)
(*                                                                         *)
(* A Python str is a sequence of one-character strings; a bytes object is  *)
(* a sequence of byte tokens.  An ASCII character and its byte share one   *)
(* token; "e^" and "E^" are the two-byte characters U+00E9 and U+00C9,     *)
(* encoded as the bytes C3 A9 and C3 89.                                   *)
(***************************************************************************)
EXTENDS Integers, Sequences, FiniteSets, TLC

\* ------------------------------------------------------------------ bounds
NumSessions == 2        \* connections the listener can hand to sessions
MaxPeerOps == 2         \* writes one peer performs on its connection
MaxPayloadLen == 3      \* characters of a payload in the framing checks
MaxMsgLen == 6          \* characters of a message in the parsing checks
MaxFileSize == 2        \* bytes of the screenshot artifact
MaxFieldLen == 2        \* characters of a status or type in the round trips
MaxParams == 2          \* elements of a list payload in the round trips

\* ------------------------------------------------- protocol_utils constants
LENGTH_FIELD_SIZE == 4
DELIMITER == <<"#", "@">>
PARAM_SEPARATOR == <<"/">>

Sessions == 1..NumSessions

Min(a, b) == IF a < b THEN a ELSE b

\* Python's None, and the value of a local that is not bound yet.
NoneVal == <<"None">>

\* ----------------------------------------------------------- str and bytes
DigitChars == <<"0", "1", "2", "3", "4", "5", "6", "7", "8", "9">>

IsDigit(c) == \E i \in 1..10 : DigitChars[i] = c

DigitVal(c) == (CHOOSE i \in 1..10 : DigitChars[i] = c) - 1

\* str(n) for n >= 0
RECURSIVE DecStr(_)
DecStr(n) ==
    IF n < 10 THEN <<DigitChars[n + 1]>>
    ELSE DecStr(n \div 10) \o <<DigitChars[(n % 10) + 1]>>

\* str.zfill(width) of an unsigned digit string
zfill(str, width) ==
    IF Len(str) >= width THEN str
    ELSE [i \in 1..(width - Len(str)) |-> "0"] \o str

\* int(str): defined (no ValueError) on non-empty digit strings
IntOk(str) == Len(str) > 0 /\ \A i \in 1..Len(str) : IsDigit(str[i])

RECURSIVE IntOf(_)
IntOf(str) ==
    IF Len(str) = 0 THEN 0
    ELSE 10 * IntOf(SubSeq(str, 1, Len(str) - 1)) + DigitVal(str[Len(str)])

\* str.encode('utf-8'), one character
EncodeChar(c) ==
    IF c = "e^" THEN <<"C3", "A9">>
    ELSE IF c = "E^" THEN <<"C3", "89">>
    ELSE <<c>>

\* str.encode('utf-8'): the encodings of the characters, concatenated
RECURSIVE Encode(_)
Encode(str) ==
    IF str = <<>> THEN <<>>
    ELSE IF Len(str) = 1 THEN EncodeChar(str[1])
    ELSE LET half == Len(str) \div 2
         IN  Encode(SubSeq(str, 1, half))
             \o Encode(SubSeq(str, half + 1, Len(str)))

\* bytes.decode('utf-8'): ok = FALSE stands for UnicodeDecodeError.  C3 leads
\* a two-byte character and needs A9 or 89 after it; A9 and 89 only follow C3.
Decode(bytes) ==
    LET IsTrail(i) == bytes[i] \in {"A9", "89"}
        wellFormed ==
            \A i \in 1..Len(bytes) :
                /\ bytes[i] = "C3" => (i < Len(bytes) /\ IsTrail(i + 1))
                /\ IsTrail(i) => (i > 1 /\ bytes[i - 1] = "C3")
        starts == SelectSeq([i \in 1..Len(bytes) |-> i],
                            LAMBDA i : ~IsTrail(i))
    IN  IF wellFormed
        THEN [ok |-> TRUE,
              v |-> [k \in 1..Len(starts) |->
                        IF bytes[starts[k]] # "C3" THEN bytes[starts[k]]
                        ELSE IF bytes[starts[k] + 1] = "A9" THEN "e^"
                        ELSE "E^"]]
        ELSE [ok |-> FALSE, v |-> <<>>]

LowerChars == <<"a", "b", "c", "d", "e", "f", "g", "h", "i", "j", "k", "l", "m", "n", "o", "p", "q", "r", "s", "t", "u", "v", "w", "x", "y", "z">> \o <<"e^">>
UpperChars == <<"A", "B", "C", "D", "E", "F", "G", "H", "I", "J", "K", "L", "M", "N", "O", "P", "Q", "R", "S", "T", "U", "V", "W", "X", "Y", "Z">> \o <<"E^">>

UpperChar(c) ==
    IF \E i \in 1..Len(LowerChars) : LowerChars[i] = c
    THEN UpperChars[CHOOSE i \in 1..Len(LowerChars) : LowerChars[i] = c]
    ELSE c

\* str.upper()
Upper(str) == [i \in 1..Len(str) |-> UpperChar(str[i])]

\* str.find(sep, from): index of the first occurrence of sep in str at or
\* after from, 0 if there is none
Find(str, sep, from) ==
    LET hits == {i \in from..(Len(str) - Len(sep) + 1) :
                    SubSeq(str, i, i + Len(sep) - 1) = sep}
    IN  IF hits = {} THEN 0
        ELSE CHOOSE i \in hits : \A j \in hits : i <= j

\* str.split(sep, maxsplit); maxsplit = -1 splits at every occurrence
RECURSIVE split(_, _, _)
split(str, sep, maxsplit) ==
    LET j == Find(str, sep, 1)
    IN  IF maxsplit = 0 \/ j = 0 THEN <<str>>
        ELSE <<SubSeq(str, 1, j - 1)>>
             \o split(SubSeq(str, j + Len(sep), Len(str)), sep, maxsplit - 1)

\* sep.join(list)
RECURSIVE join(_, _)
join(sep, list) ==
    IF list = <<>> THEN <<>>
    ELSE IF Len(list) = 1 THEN list[1]
    ELSE list[1] \o sep \o join(sep, Tail(list))

\* all sequences over alphabet of length at most n
RECURSIVE SeqsUpTo(_, _)
SeqsUpTo(alphabet, n) ==
    IF n = 0 THEN {<<>>}
    ELSE LET shorter == SeqsUpTo(alphabet, n - 1)
         IN  shorter \cup {Append(q, c) : q \in shorter, c \in alphabet}

\* ------------------------------------------------------------ framing codec
\* send_message, lines 27-31: the bytes handed to sock.sendall
FrameBytes(raw_data) ==
    LET encoded_data == Encode(raw_data)
        data_length == Len(encoded_data)
        length_prefix == zfill(DecStr(data_length), LENGTH_FIELD_SIZE)
    IN  Encode(length_prefix) \o encoded_data

\* ------------------------------------------------------------ message model
InvalidFormat == <<"I", "n", "v", "a", "l", "i", "d", " ", "p", "r", "o", "t", "o", "c", "o", "l", " ", "f", "o", "r", "m", "a", "t", ".">>

\* the message split at every delimiter instead of the first two
parse_message_SplitAll(message) ==
    LET parts == split(message, DELIMITER, -1)
    IN  IF Len(parts) < 3
        THEN [command |-> <<"E", "R", "R", "O", "R">>, type |-> <<"T", "E", "X", "T">>,
              params |-> <<InvalidFormat>>]
        ELSE [command |-> parts[1], type |-> parts[2],
              params |-> split(parts[3], PARAM_SEPARATOR, -1)]

parse_message(message) ==
    LET parts == split(message, DELIMITER, 2)
    IN  IF Len(parts) < 3
        THEN [command |-> <<"E", "R", "R", "O", "R">>, type |-> <<"T", "E", "X", "T">>,
              params |-> <<InvalidFormat>>]
        ELSE [command |-> parts[1], type |-> parts[2],
              params |-> split(parts[3], PARAM_SEPARATOR, -1)]

\* data is a str (list = FALSE) or a list of str (list = TRUE)
StrData(str) == [list |-> FALSE, v |-> str]
ListData(items) == [list |-> TRUE, v |-> items]

create_response_message(status, data_type, data) ==
    LET data_string == IF data.list THEN join(PARAM_SEPARATOR, data.v)
                       ELSE data.v
    IN  status \o DELIMITER \o data_type \o DELIMITER \o data_string

\* the parameters joined with a comma instead of PARAM_SEPARATOR
create_command_message_Comma(cmd, params, timestamp) ==
    LET data_string == join(<<",">>, params)
    IN  cmd \o DELIMITER \o timestamp \o DELIMITER \o data_string

\* timestamp stands for str(int(time.time()))
create_command_message(cmd, params, timestamp) ==
    LET data_string == join(PARAM_SEPARATOR, params)
    IN  cmd \o DELIMITER \o timestamp \o DELIMITER \o data_string

\* ----------------------------------------------------------------- handlers
Resp(status, dtype, data) == [status |-> status, dtype |-> dtype, data |-> data]

\* a handler either returns a (status, type, data) tuple or lets an
\* exception escape
Returned(status, dtype, data) ==
    [raised |-> FALSE, r |-> Resp(status, dtype, data)]
Raised == [raised |-> TRUE, r |-> Resp(<<>>, <<>>, StrData(<<>>))]

COMPLETED_RESPONSE == <<"C", "O", "M", "P", "L", "E", "T", "E", "D", "_", "R", "E", "S", "P", "O", "N", "S", "E">>
SCREENSHOT_FILENAME == <<"s", "c", "r", "e", "e", "n", "s", "h", "o", "t", ".", "j", "p", "g">>
TEMP_DIR == <<"s", "e", "r", "v", "e", "r", "_", "t", "e", "m", "p">>

\* what the operating system can answer
ErrTexts == {<<"e", "r", "r">>}                     \* str(e) of an OSError
Cwd == <<"w">>                              \* os.getcwd()
DirListings == {<<<<"a">>>>, <<<<"a">>, <<"b", "/">>>>}  \* non-empty glob results

\* `not params or not params[0]`
NoFirstParam(params) == params = <<>> \/ params[1] = <<>>

handle_dir(params) ==
    LET path_or_pattern == IF NoFirstParam(params) THEN Cwd ELSE params[1]
        search_patterns == {path_or_pattern \o <<"/", "*">>, path_or_pattern}
    IN  (IF NoFirstParam(params) THEN {Raised} ELSE {})  \* os.getcwd() fails
        \cup {Returned(<<"O", "K">>, <<"L", "I", "S", "T">>, ListData(content)) :
                content \in DirListings}
        \cup {Returned(<<"O", "K">>, <<"T", "E", "X", "T">>,
                       StrData(<<"N", "o", " ", "m", "a", "t", "c", "h", "e", "s", " ", "f", "o", "u", "n", "d", " ", "f", "o", "r", ":", " ">> \o sp)) :
                sp \in search_patterns}
        \cup {Returned(<<"E", "R", "R", "O", "R">>, <<"T", "E", "X", "T">>,
                       StrData(<<"P", "a", "t", "h", " ", "d", "o", "e", "s", " ", "n", "o", "t", " ", "e", "x", "i", "s", "t", ":", " ">> \o path_or_pattern))}
        \cup {Returned(<<"E", "R", "R", "O", "R">>, <<"T", "E", "X", "T">>,
                       StrData(<<"E", "r", "r", "o", "r", " ", "a", "c", "c", "e", "s", "s", "i", "n", "g", " ", "d", "i", "r", "e", "c", "t", "o", "r", "y", ":", " ">> \o e)) :
                e \in ErrTexts}

\* os.remove is called whatever the parameters are
handle_delete_NoCheck(params) ==
    {Returned(<<"O", "K">>, <<"T", "E", "X", "T">>,
              StrData(<<"F", "i", "l", "e", " ">> \o params[1] \o <<" ", "d", "e", "l", "e", "t", "e", "d", " ", "s", "u", "c", "c", "e", "s", "s", "f", "u", "l", "l", "y", ".">>))}
    \cup {Returned(<<"E", "R", "R", "O", "R">>, <<"T", "E", "X", "T">>,
                   StrData(<<"E", "r", "r", "o", "r", " ", "d", "e", "l", "e", "t", "i", "n", "g", " ", "f", "i", "l", "e", ":", " ">> \o e)) :
            e \in ErrTexts}

handle_delete(params) ==
    IF NoFirstParam(params)
    THEN {Returned(<<"E", "R", "R", "O", "R">>, <<"T", "E", "X", "T">>, StrData(<<"M", "i", "s", "s", "i", "n", "g", " ", "f", "i", "l", "e", " ", "p", "a", "t", "h", ".">>))}
    ELSE {Returned(<<"O", "K">>, <<"T", "E", "X", "T">>,
                   StrData(<<"F", "i", "l", "e", " ">> \o params[1] \o <<" ", "d", "e", "l", "e", "t", "e", "d", " ", "s", "u", "c", "c", "e", "s", "s", "f", "u", "l", "l", "y", ".">>))}
         \cup {Returned(<<"E", "R", "R", "O", "R">>, <<"T", "E", "X", "T">>,
                        StrData(<<"E", "r", "r", "o", "r", " ", "d", "e", "l", "e", "t", "i", "n", "g", " ", "f", "i", "l", "e", ":", " ">> \o e)) :
                 e \in ErrTexts}

handle_copy(params) ==
    IF Len(params) < 2
    THEN {Returned(<<"E", "R", "R", "O", "R">>, <<"T", "E", "X", "T">>,
                   StrData(<<"M", "i", "s", "s", "i", "n", "g", " ", "s", "o", "u", "r", "c", "e", " ", "o", "r", " ", "d", "e", "s", "t", "i", "n", "a", "t", "i", "o", "n", " ", "p", "a", "t", "h", ".">>))}
    ELSE {Returned(<<"O", "K">>, <<"T", "E", "X", "T">>,
                   StrData(<<"F", "i", "l", "e", " ", "c", "o", "p", "i", "e", "d", " ", "f", "r", "o", "m", " ">> \o params[1] \o <<" ", "t", "o", " ">>
                           \o params[2] \o <<".">>))}
         \cup {Returned(<<"E", "R", "R", "O", "R">>, <<"T", "E", "X", "T">>,
                        StrData(<<"E", "r", "r", "o", "r", " ", "c", "o", "p", "y", "i", "n", "g", " ", "f", "i", "l", "e", ":", " ">> \o e)) :
                 e \in ErrTexts}

handle_execute(params) ==
    IF NoFirstParam(params)
    THEN {Returned(<<"E", "R", "R", "O", "R">>, <<"T", "E", "X", "T">>, StrData(<<"M", "i", "s", "s", "i", "n", "g", " ", "p", "r", "o", "g", "r", "a", "m", " ", "p", "a", "t", "h", ".">>))}
    ELSE {Returned(<<"O", "K">>, <<"T", "E", "X", "T">>,
                   StrData(<<"P", "r", "o", "g", "r", "a", "m", " ">> \o params[1]
                           \o <<" ", "l", "a", "u", "n", "c", "h", "e", "d", " ", "s", "u", "c", "c", "e", "s", "s", "f", "u", "l", "l", "y", ".">>))}
         \cup {Returned(<<"E", "R", "R", "O", "R">>, <<"T", "E", "X", "T">>,
                        StrData(<<"E", "r", "r", "o", "r", " ", "e", "x", "e", "c", "u", "t", "i", "n", "g", " ", "p", "r", "o", "g", "r", "a", "m", ":", " ">> \o e)) :
                 e \in ErrTexts}

handle_exit(params) ==
    {Returned(<<"O", "K">>, <<"T", "E", "X", "T">>, StrData(<<"C", "o", "n", "n", "e", "c", "t", "i", "o", "n", " ", "c", "l", "o", "s", "i", "n", "g", ".">>))}

\* the handlers that only compute a result; SCREENSHOT and SEND_PHOTO act on
\* the artifact and the socket and are part of Dispatch
COMMAND_HANDLERS ==
    {<<"D", "I", "R">>, <<"D", "E", "L", "E", "T", "E">>, <<"C", "O", "P", "Y">>, <<"E", "X", "E", "C", "U", "T", "E">>, <<"S", "C", "R", "E", "E", "N", "S", "H", "O", "T">>, <<"S", "E", "N", "D", "_", "P", "H", "O", "T", "O">>,
     <<"E", "X", "I", "T">>}

CallHandler(cmd, params) ==
    CASE cmd = <<"D", "I", "R">> -> handle_dir(params)
      [] cmd = <<"D", "E", "L", "E", "T", "E">> -> handle_delete(params)
      [] cmd = <<"C", "O", "P", "Y">> -> handle_copy(params)
      [] cmd = <<"E", "X", "E", "C", "U", "T", "E">> -> handle_execute(params)
      [] cmd = <<"E", "X", "I", "T">> -> handle_exit(params)

\* -------------------------------------------------------------------- state
VARIABLES
    pc,               \* position of each session thread in handle_client
    transport,        \* client_socket: "open", "broken" (peer reset), "closed"
    closes,           \* client_socket.close() calls of each session
    listener,         \* server_socket: "listening" or "stopped"
    inbuf,            \* bytes the peer wrote that the session has not read
    peerClosed,       \* the peer shut its sending side down
    peerSent,         \* raw_data of the peer's latest send_message
    nOps,             \* writes the peer has performed
    length_prefix_bytes,  \* receive_message local: what recv(4) returned
    expected_length,  \* receive_message local
    chunks,           \* receive_message local, joined
    raw_message,      \* handle_client local
    parsed_data,      \* handle_client local
    command,          \* handle_client local
    response,         \* handle_client locals status, dtype, data
    sent,             \* sendall calls on client_socket since the current
                      \* receive_message call began, one entry per call
    invoked,          \* handlers called since then
    artifact          \* the file server_temp/screenshot.jpg

vars == <<pc, transport, closes, listener, inbuf, peerClosed, peerSent, nOps,
          length_prefix_bytes, expected_length,
          chunks, raw_message, parsed_data, command, response, sent, invoked,
          artifact>>

sockVars == <<transport, closes, listener>>
peerVars == <<inbuf, peerClosed, peerSent, nOps>>
recvVars == <<length_prefix_bytes, expected_length, chunks>>
loopVars == <<raw_message, parsed_data, command, response>>
logVars == <<sent, invoked>>

NoParsed == [command |-> <<>>, type |-> <<>>, params |-> <<>>]
NoResponse == [status |-> <<>>, dtype |-> <<>>, data |-> StrData(<<>>)]

Absent == [exists |-> FALSE, bytes |-> <<>>]
File(bytes) == [exists |-> TRUE, bytes |-> bytes]

FileBytes == {"x", "0"}
Artifacts == {Absent} \cup {File(b) : b \in SeqsUpTo(FileBytes, MaxFileSize)}

\* the state of a session whose connection was just accepted (running = TRUE)
\* or was not accepted yet
InitSessions(running, at) ==
    /\ pc = [s \in Sessions |-> IF s \in running THEN at ELSE "unborn"]
    /\ transport = [s \in Sessions |-> "open"]
    /\ closes = [s \in Sessions |-> 0]
    /\ listener = "listening"
    /\ inbuf = [s \in Sessions |-> <<>>]
    /\ peerClosed = [s \in Sessions |-> FALSE]
    /\ peerSent = [s \in Sessions |-> NoneVal]
    /\ nOps = [s \in Sessions |-> 0]
    /\ length_prefix_bytes = [s \in Sessions |-> <<>>]
    /\ expected_length = [s \in Sessions |-> 0]
    /\ chunks = [s \in Sessions |-> <<>>]
    /\ raw_message = [s \in Sessions |-> NoneVal]
    /\ parsed_data = [s \in Sessions |-> NoParsed]
    /\ command = [s \in Sessions |-> <<>>]
    /\ response = [s \in Sessions |-> NoResponse]
    /\ sent = [s \in Sessions |-> <<>>]
    /\ invoked = [s \in Sessions |-> <<>>]

\* ------------------------------------------------------------------ the peer
CanWrite(s) ==
    /\ pc[s] # "unborn"
    /\ transport[s] # "broken"
    /\ ~peerClosed[s]
    /\ nOps[s] < MaxPeerOps
    /\ inbuf[s] = <<>>

\* the peer calls send_message(sock, raw_data)
PeerSendMessage(s, payloads) ==
    /\ CanWrite(s)
    /\ \E raw_data \in payloads :
        /\ inbuf' = [inbuf EXCEPT ![s] = FrameBytes(raw_data)]
        /\ peerSent' = [peerSent EXCEPT ![s] = raw_data]
    /\ nOps' = [nOps EXCEPT ![s] = @ + 1]
    /\ UNCHANGED <<pc, sockVars, peerClosed, recvVars, loopVars, logVars,
                   artifact>>

\* ------------------------------------------------------------ receive_message
\* receive_message returns result to handle_client, line 39
ReceiveReturns(s, result) ==
    /\ raw_message' = [raw_message EXCEPT ![s] = result]
    /\ pc' = [pc EXCEPT ![s] = "received"]

\* the locals of the loop body are rebound in every iteration before they
\* are read; the logs restart with the receive_message call
LoopTop(s) ==
    /\ parsed_data' = [parsed_data EXCEPT ![s] = NoParsed]
    /\ command' = [command EXCEPT ![s] = <<>>]
    /\ response' = [response EXCEPT ![s] = NoResponse]
    /\ sent' = [sent EXCEPT ![s] = <<>>]
    /\ invoked' = [invoked EXCEPT ![s] = <<>>]

\* lines 51-62 up to the first test of the while condition
RecvPrefix(s) ==
    /\ pc[s] = "recv_prefix"
    /\ LoopTop(s)
    /\ \/ /\ transport[s] = "broken"          \* recv raises, line 74
          /\ ReceiveReturns(s, NoneVal)
          /\ length_prefix_bytes' = [length_prefix_bytes EXCEPT ![s] = <<>>]
          /\ UNCHANGED <<inbuf, expected_length, chunks>>
       \/ /\ transport[s] = "open"            \* recv returns b'', line 53
          /\ inbuf[s] = <<>>
          /\ peerClosed[s]
          /\ ReceiveReturns(s, NoneVal)
          /\ length_prefix_bytes' = [length_prefix_bytes EXCEPT ![s] = <<>>]
          /\ UNCHANGED <<inbuf, expected_length, chunks>>
       \/ /\ transport[s] = "open"
          /\ inbuf[s] # <<>>
          /\ \E k \in 1..Min(LENGTH_FIELD_SIZE, Len(inbuf[s])) :
               LET received == SubSeq(inbuf[s], 1, k)
                   length_prefix == Decode(received)
               IN  /\ inbuf' = [inbuf EXCEPT ![s] = SubSeq(@, k + 1, Len(@))]
                   /\ length_prefix_bytes' =
                         [length_prefix_bytes EXCEPT ![s] = received]
                   /\ IF ~length_prefix.ok \/ ~IntOk(length_prefix.v)
                      THEN /\ ReceiveReturns(s, NoneVal)
                           /\ UNCHANGED <<expected_length, chunks>>
                      ELSE IF 0 < IntOf(length_prefix.v)
                      THEN /\ expected_length' = [expected_length EXCEPT
                                                    ![s] = IntOf(length_prefix.v)]
                           /\ chunks' = [chunks EXCEPT ![s] = <<>>]
                           /\ pc' = [pc EXCEPT ![s] = "recv_body"]
                           /\ raw_message' = [raw_message EXCEPT ![s] = NoneVal]
                      ELSE /\ ReceiveReturns(s, <<>>)
                           /\ UNCHANGED <<expected_length, chunks>>
    /\ UNCHANGED <<sockVars, peerClosed, peerSent, nOps, artifact>>

\* one pass of the loop of lines 62-68, and lines 70-72 when it ends
RecvChunk(s) ==
    /\ pc[s] = "recv_body"
    /\ \/ /\ transport[s] = "broken"          \* recv raises, line 74
          /\ ReceiveReturns(s, NoneVal)
          /\ UNCHANGED <<inbuf, recvVars>>
       \/ /\ transport[s] = "open"            \* recv returns b'', line 64
          /\ inbuf[s] = <<>>
          /\ peerClosed[s]
          /\ ReceiveReturns(s, NoneVal)
          /\ UNCHANGED <<inbuf, recvVars>>
       \/ /\ transport[s] = "open"
          /\ inbuf[s] # <<>>
          /\ \E k \in 1..Min(expected_length[s] - Len(chunks[s]),
                             Len(inbuf[s])) :
               LET joined == chunks[s] \o SubSeq(inbuf[s], 1, k)
                   raw_data == Decode(joined)
               IN  /\ inbuf' = [inbuf EXCEPT ![s] = SubSeq(@, k + 1, Len(@))]
                   /\ chunks' = [chunks EXCEPT ![s] = joined]
                   /\ UNCHANGED <<length_prefix_bytes, expected_length>>
                   /\ IF Len(joined) < expected_length[s]
                      THEN UNCHANGED <<pc, raw_message>>
                      ELSE ReceiveReturns(s, IF raw_data.ok THEN raw_data.v
                                             ELSE NoneVal)
    /\ UNCHANGED <<sockVars, peerClosed, peerSent, nOps, parsed_data,
                   command, response, logVars, artifact>>

\* ------------------------------------------------------------- handle_client
\* send_message(client_socket, raw_data): the log of sendall calls after it.
\* sendall raises on a transport that is not open; send_message catches that
\* and reports False, which no caller looks at.
send_message(s, raw_data) ==
    IF transport[s] = "open" THEN Append(sent[s], FrameBytes(raw_data))
    ELSE sent[s]

\* lines 66-68, reached by break and by the except clause of line 64
\* The loop is left but the finally clause does not close the socket.
CloseSocket_Leaks(s) ==
    /\ pc' = [pc EXCEPT ![s] = "closed"]
    /\ UNCHANGED sockVars

CloseSocket(s) ==
    /\ pc' = [pc EXCEPT ![s] = "closed"]
    /\ transport' = [transport EXCEPT ![s] = "closed"]
    /\ closes' = [closes EXCEPT ![s] = @ + 1]
    /\ UNCHANGED listener

\* The failure of getpeername is not caught in handle_client and takes
\* the listener down.
Start_Propagates(s) ==
    /\ pc[s] = "start"
    /\ IF transport[s] = "open"
       THEN /\ pc' = [pc EXCEPT ![s] = "recv_prefix"]
            /\ UNCHANGED sockVars
       ELSE /\ pc' = [pc EXCEPT ![s] = "closed"]
            /\ transport' = [transport EXCEPT ![s] = "closed"]
            /\ closes' = [closes EXCEPT ![s] = @ + 1]
            /\ listener' = "stopped"
    /\ UNCHANGED <<peerVars, recvVars, loopVars, logVars, artifact>>

\* line 34: getpeername raises on a connection that was reset
Start(s) ==
    /\ pc[s] = "start"
    /\ IF transport[s] = "open"
       THEN /\ pc' = [pc EXCEPT ![s] = "recv_prefix"]
            /\ UNCHANGED sockVars
       ELSE CloseSocket(s)
    /\ UNCHANGED <<peerVars, recvVars, loopVars, logVars, artifact>>

\* lines 41-49
Parse(s) ==
    /\ pc[s] = "received"
    /\ IF raw_message[s] = NoneVal \/ raw_message[s] = <<>>   \* not raw_message
       THEN /\ CloseSocket(s)
            /\ UNCHANGED <<parsed_data, command>>
       ELSE /\ parsed_data' = [parsed_data EXCEPT
                                 ![s] = parse_message(raw_message[s])]
            /\ command' = [command EXCEPT
                             ![s] = Upper(parse_message(raw_message[s]).command)]
            /\ pc' = [pc EXCEPT ![s] = "dispatch"]
            /\ UNCHANGED sockVars
    /\ UNCHANGED <<peerVars, recvVars, raw_message, response, logVars,
                   artifact>>

NotFoundMsg ==
    create_response_message(<<"E", "R", "R", "O", "R">>, <<"T", "E", "X", "T">>,
        StrData(<<"S", "c", "r", "e", "e", "n", "s", "h", "o", "t", " ", "n", "o", "t", " ", "f", "o", "u", "n", "d", ".", " ", "R", "u", "n", " ", "S", "C", "R", "E", "E", "N", "S", "H", "O", "T", " ", "f", "i", "r", "s", "t", ".">>))

SelfDelivered == Resp(COMPLETED_RESPONSE, <<"T", "E", "X", "T">>, StrData(<<"N", "/", "A">>))

\* the error is written and also returned to the loop
PhotoNotFound_AlsoReturned(s) ==
    /\ sent' = [sent EXCEPT ![s] = send_message(s, NotFoundMsg)]
    /\ response' = [response EXCEPT ![s] =
            Resp(<<"E", "R", "R", "O", "R">>, <<"T", "E", "X", "T">>,
                 StrData(<<"S", "c", "r", "e", "e", "n", "s", "h", "o", "t", " ", "n", "o", "t", " ", "f", "o", "u", "n", "d", ".", " ", "R", "u", "n", " ", "S", "C", "R", "E", "E", "N", "S", "H", "O", "T", " ", "f", "i", "r", "s", "t", ".">>))]
    /\ pc' = [pc EXCEPT ![s] = "respond"]

\* handle_send_photo, lines 177-183
PhotoNotFound(s) ==
    /\ sent' = [sent EXCEPT ![s] = send_message(s, NotFoundMsg)]
    /\ response' = [response EXCEPT ![s] = SelfDelivered]
    /\ pc' = [pc EXCEPT ![s] = "respond"]

\* handle_screenshot: the capture is saved over the artifact, or fails
ScreenshotCall(s) ==
    \/ /\ \E bytes \in SeqsUpTo(FileBytes, MaxFileSize) :
            artifact' = File(bytes)
       /\ response' = [response EXCEPT ![s] =
            Resp(<<"O", "K">>, <<"T", "E", "X", "T">>,
                 StrData(<<"S", "c", "r", "e", "e", "n", "s", "h", "o", "t", " ", "s", "a", "v", "e", "d", " ", "i", "n", " ">> \o TEMP_DIR \o <<".">>))]
    \/ /\ \E e \in ErrTexts :
            response' = [response EXCEPT ![s] =
                Resp(<<"E", "R", "R", "O", "R">>, <<"T", "E", "X", "T">>,
                     StrData(<<"E", "r", "r", "o", "r", " ", "t", "a", "k", "i", "n", "g", " ", "s", "c", "r", "e", "e", "n", "s", "h", "o", "t", ":", " ">> \o e))]
       /\ UNCHANGED artifact

\* the diagnostic without the name of the command
UnknownCommand_Unnamed(cmd) ==
    Resp(<<"E", "R", "R", "O", "R">>, <<"T", "E", "X", "T">>, StrData(<<"U", "n", "k", "n", "o", "w", "n", " ", "c", "o", "m", "m", "a", "n", "d">>))

\* line 55
UnknownCommand(cmd) ==
    Resp(<<"E", "R", "R", "O", "R">>, <<"T", "E", "X", "T">>, StrData(<<"U", "n", "k", "n", "o", "w", "n", " ", "c", "o", "m", "m", "a", "n", "d", ":", " ">> \o cmd))

\* lines 51-55, with the body of the handler that is called; handle_send_photo
\* runs up to its first write (lines 174-183) and goes on in PhotoSize
Dispatch(s) ==
    /\ pc[s] = "dispatch"
    /\ IF command[s] \in COMMAND_HANDLERS
       THEN /\ invoked' = [invoked EXCEPT ![s] = Append(@, command[s])]
            /\ IF command[s] = <<"S", "C", "R", "E", "E", "N", "S", "H", "O", "T">>
               THEN /\ ScreenshotCall(s)
                    /\ pc' = [pc EXCEPT ![s] = "respond"]
                    /\ UNCHANGED <<sockVars, sent>>
               ELSE IF command[s] = <<"S", "E", "N", "D", "_", "P", "H", "O", "T", "O">>
               THEN /\ IF ~artifact.exists
                       THEN PhotoNotFound(s)
                       ELSE /\ pc' = [pc EXCEPT ![s] = "photo_size"]
                            /\ UNCHANGED <<sent, response>>
                    /\ UNCHANGED <<sockVars, artifact>>
               ELSE /\ \E outcome \in CallHandler(command[s],
                                                  parsed_data[s].params) :
                         IF outcome.raised
                         THEN /\ CloseSocket(s)          \* line 64
                              /\ UNCHANGED response
                         ELSE /\ response' = [response EXCEPT ![s] = outcome.r]
                              /\ pc' = [pc EXCEPT ![s] = "respond"]
                              /\ UNCHANGED sockVars
                    /\ UNCHANGED <<sent, artifact>>
       ELSE /\ response' = [response EXCEPT ![s] = UnknownCommand(command[s])]
            /\ pc' = [pc EXCEPT ![s] = "respond"]
            /\ UNCHANGED <<sockVars, logVars, artifact>>
    /\ UNCHANGED <<peerVars, recvVars, raw_message, parsed_data, command>>

\* the except clause of handle_send_photo, lines 201-205
PhotoFails(s) ==
    /\ \E e \in ErrTexts :
         sent' = [sent EXCEPT ![s] =
            send_message(s, create_response_message(<<"E", "R", "R", "O", "R">>, <<"T", "E", "X", "T">>,
                                                    StrData(<<"E", "r", "r", "o", "r", ":", " ">> \o e)))]
    /\ response' = [response EXCEPT ![s] = SelfDelivered]
    /\ pc' = [pc EXCEPT ![s] = "respond"]

\* the size is announced and the loop receives again while the transfer
\* is still to be written
PhotoSize_Async(s) ==
    /\ pc[s] = "photo_size"
    /\ IF ~artifact.exists
       THEN PhotoFails(s)
       ELSE LET file_size == Len(artifact.bytes)
                size_msg == create_response_message(<<"F", "I", "L", "E">>, <<"S", "I", "Z", "E">>,
                                StrData(DecStr(file_size)))
            IN  /\ sent' = [sent EXCEPT ![s] = send_message(s, size_msg)]
                /\ pc' = [pc EXCEPT ![s] = "recv_prefix"]
                /\ UNCHANGED response
    /\ UNCHANGED <<sockVars, peerVars, recvVars, raw_message, parsed_data,
                   command, invoked, artifact>>

\* handle_send_photo, lines 186-188: getsize raises when the file is gone
PhotoSize(s) ==
    /\ pc[s] = "photo_size"
    /\ IF ~artifact.exists
       THEN PhotoFails(s)
       ELSE LET file_size == Len(artifact.bytes)
                size_msg == create_response_message(<<"F", "I", "L", "E">>, <<"S", "I", "Z", "E">>,
                                StrData(DecStr(file_size)))
            IN  /\ sent' = [sent EXCEPT ![s] = send_message(s, size_msg)]
                /\ pc' = [pc EXCEPT ![s] = "photo_raw"]
                /\ UNCHANGED response
    /\ UNCHANGED <<sockVars, peerVars, recvVars, raw_message, parsed_data,
                   command, invoked, artifact>>

\* the file content written as a frame of its own
PhotoRaw_Framed(s) ==
    /\ pc[s] = "photo_raw"
    /\ IF ~artifact.exists \/ transport[s] # "open"
       THEN PhotoFails(s)
       ELSE /\ sent' = [sent EXCEPT ![s] = send_message(s, artifact.bytes)]
            /\ pc' = [pc EXCEPT ![s] = "photo_final"]
            /\ UNCHANGED response
    /\ UNCHANGED <<sockVars, peerVars, recvVars, raw_message, parsed_data,
                   command, invoked, artifact>>

\* handle_send_photo, lines 190-191: open raises when the file is gone,
\* sendall raises when the transport is not open
PhotoRaw(s) ==
    /\ pc[s] = "photo_raw"
    /\ IF ~artifact.exists \/ transport[s] # "open"
       THEN PhotoFails(s)
       ELSE /\ sent' = [sent EXCEPT ![s] = Append(@, artifact.bytes)]
            /\ pc' = [pc EXCEPT ![s] = "photo_final"]
            /\ UNCHANGED response
    /\ UNCHANGED <<sockVars, peerVars, recvVars, raw_message, parsed_data,
                   command, invoked, artifact>>

\* handle_send_photo, lines 193-199
PhotoFinal(s) ==
    /\ pc[s] = "photo_final"
    /\ LET final_msg == create_response_message(<<"O", "K">>, <<"T", "E", "X", "T">>,
                StrData(<<"F", "i", "l", "e", " ">> \o SCREENSHOT_FILENAME
                        \o <<" ", "s", "e", "n", "t", " ", "s", "u", "c", "c", "e", "s", "s", "f", "u", "l", "l", "y", ".">>))
       IN  sent' = [sent EXCEPT ![s] = send_message(s, final_msg)]
    /\ response' = [response EXCEPT ![s] = SelfDelivered]
    /\ pc' = [pc EXCEPT ![s] = "respond"]
    /\ UNCHANGED <<sockVars, peerVars, recvVars, raw_message, parsed_data,
                   command, invoked, artifact>>

\* the RESPOND step without the test for COMPLETED_RESPONSE
Respond_AlwaysSends(s) ==
    /\ pc[s] = "respond"
    /\ sent' = [sent EXCEPT ![s] =
            send_message(s, create_response_message(response[s].status,
                                response[s].dtype, response[s].data))]
    /\ IF command[s] = <<"E", "X", "I", "T">>
       THEN CloseSocket(s)
       ELSE /\ pc' = [pc EXCEPT ![s] = "recv_prefix"]
            /\ UNCHANGED sockVars
    /\ UNCHANGED <<peerVars, recvVars, loopVars, invoked, artifact>>

\* the loop without the break of lines 61-62
Respond_NoBreak(s) ==
    /\ pc[s] = "respond"
    /\ IF response[s].status # COMPLETED_RESPONSE
       THEN sent' = [sent EXCEPT ![s] =
                send_message(s, create_response_message(response[s].status,
                                    response[s].dtype, response[s].data))]
       ELSE UNCHANGED sent
    /\ pc' = [pc EXCEPT ![s] = "recv_prefix"]
    /\ UNCHANGED <<sockVars, peerVars, recvVars, loopVars, invoked, artifact>>

\* lines 57-62, and 66-68 after the break
Respond(s) ==
    /\ pc[s] = "respond"
    /\ IF response[s].status # COMPLETED_RESPONSE
       THEN sent' = [sent EXCEPT ![s] =
                send_message(s, create_response_message(response[s].status,
                                    response[s].dtype, response[s].data))]
       ELSE UNCHANGED sent
    /\ IF command[s] = <<"E", "X", "I", "T">>
       THEN CloseSocket(s)
       ELSE /\ pc' = [pc EXCEPT ![s] = "recv_prefix"]
            /\ UNCHANGED sockVars
    /\ UNCHANGED <<peerVars, recvVars, loopVars, invoked, artifact>>

\* ------------------------------------------------------ the peer, continued
\* the peer writes bytes that are no frame of send_message
PeerWriteRaw(s, writes) ==
    /\ CanWrite(s)
    /\ \E bytes \in writes :
        inbuf' = [inbuf EXCEPT ![s] = bytes]
    /\ peerSent' = [peerSent EXCEPT ![s] = NoneVal]
    /\ nOps' = [nOps EXCEPT ![s] = @ + 1]
    /\ UNCHANGED <<pc, sockVars, peerClosed, recvVars, loopVars, logVars,
                   artifact>>

\* the peer shuts the connection down in an orderly way
PeerClose(s) ==
    /\ pc[s] \notin {"unborn", "closed"}
    /\ transport[s] = "open"
    /\ ~peerClosed[s]
    /\ peerClosed' = [peerClosed EXCEPT ![s] = TRUE]
    /\ UNCHANGED <<pc, sockVars, inbuf, peerSent, nOps, recvVars, loopVars,
                   logVars, artifact>>

\* the connection is reset: every later recv and sendall raises
PeerReset(s) ==
    /\ pc[s] \notin {"unborn", "closed"}
    /\ transport[s] = "open"
    /\ transport' = [transport EXCEPT ![s] = "broken"]
    /\ UNCHANGED <<closes, listener>>
    /\ UNCHANGED <<pc, peerVars, recvVars, loopVars, logVars, artifact>>

\* ------------------------------------------------------- one running session
Timestamps == {<<"1", "7">>}

CommandCalls ==
    {<<<<"D", "I", "R">>, <<>>>>, <<<<"d", "i", "r">>, <<<<"a">>>>>>,
     <<<<"D", "E", "L", "E", "T", "E">>, <<>>>>, <<<<"D", "E", "L", "E", "T", "E">>, <<<<"a">>>>>>,
     <<<<"C", "O", "P", "Y">>, <<<<"a">>>>>>, <<<<"C", "O", "P", "Y">>, <<<<"a">>, <<"b">>>>>>,
     <<<<"E", "X", "E", "C", "U", "T", "E">>, <<>>>>, <<<<"E", "x", "e", "c", "u", "t", "e">>, <<<<"a">>>>>>,
     <<<<"S", "C", "R", "E", "E", "N", "S", "H", "O", "T">>, <<>>>>, <<<<"S", "E", "N", "D", "_", "P", "H", "O", "T", "O">>, <<>>>>, <<<<"s", "e", "n", "d", "_", "p", "h", "o", "t", "o">>, <<>>>>,
     <<<<"E", "X", "I", "T">>, <<>>>>, <<<<"e", "x", "i", "t">>, <<>>>>, <<<<"E", "x", "i", "t">>, <<<<"a">>>>>>,
     <<<<"F", "O", "O">>, <<>>>>, <<<<"f", "o", "o">>, <<<<"a">>>>>>, <<<<>>, <<>>>>}

\* messages with fewer than three fields
ShortMessages == {<<>>, <<"X">>, <<"E", "X", "I", "T">>, <<"D", "I", "R", "#", "@", "1", "7">>}

Messages ==
    {create_command_message(c[1], c[2], t) :
        c \in CommandCalls, t \in Timestamps} \cup ShortMessages

\* a prefix that is no number, a truncated prefix, a truncated payload, a
\* payload that is not UTF-8
RawWrites == {<<"a", "b">>, <<"0", "0">>, <<"0", "1", "X">>, <<"0", "0", "0", "5", "D", "I">>, <<"0", "0", "0", "1">> \o <<"C3">>}

Init ==
    /\ InitSessions({1}, "start")
    /\ artifact \in Artifacts

Next ==
    \E s \in Sessions :
        \/ Start(s)
        \/ RecvPrefix(s)
        \/ RecvChunk(s)
        \/ Parse(s)
        \/ Dispatch(s)
        \/ PhotoSize(s)
        \/ PhotoRaw(s)
        \/ PhotoFinal(s)
        \/ Respond(s)
        \/ PeerSendMessage(s, Messages)
        \/ PeerWriteRaw(s, RawWrites)
        \/ PeerClose(s)
        \/ PeerReset(s)

Spec == Init /\ [][Next]_vars

\* -------------------------------------------- framing on a connected pair
FrameAlphabet == {"a", "7", "e^", "#", "@"}
FramePayloads == SeqsUpTo(FrameAlphabet, MaxPayloadLen)

InitFrame ==
    /\ InitSessions({1}, "recv_prefix")
    /\ artifact = Absent

NextFrame ==
    \E s \in Sessions :
        \/ PeerSendMessage(s, FramePayloads)
        \/ RecvPrefix(s)
        \/ RecvChunk(s)

SpecFrame == InitFrame /\ [][NextFrame]_vars

\* C1: on a connected pair, receive_message after the peer's
\* send_message(payload) returns exactly payload, for every payload of at
\* most 9999 bytes and however the stream splits the prefix and the payload
\* into chunks.
C1_RoundTrip ==
    \A s \in Sessions :
        (pc[s] = "received" /\ nOps[s] = 1)
            => raw_message[s] = peerSent[s]

\* ------------------------------------------------------- the sending side
\* the largest byte count a prefix of LENGTH_FIELD_SIZE digits can state
MaxFramed == 10 ^ LENGTH_FIELD_SIZE - 1

\* payloads at and just above the capacity of the prefix
BigPayloads == {[i \in 1..n |-> "a"] : n \in {MaxFramed, MaxFramed + 1}}

NextSend ==
    \E s \in Sessions :
        PeerSendMessage(s, FramePayloads \cup BigPayloads)

SpecSend == InitFrame /\ [][NextSend]_vars

\* C2: send_message writes no frame when the encoded payload is longer than
\* 9999 bytes, so every frame on the wire has a prefix of exactly 4 decimal
\* digits whose value is the byte count of the payload that follows.
C2_PrefixIsFourDigits ==
    \A s \in Sessions :
        peerSent[s] # NoneVal =>
            LET n == Len(Encode(peerSent[s]))
                prefix == SubSeq(inbuf[s], 1, LENGTH_FIELD_SIZE)
            IN  IF n > MaxFramed THEN inbuf[s] = <<>>
                ELSE /\ Len(inbuf[s]) = LENGTH_FIELD_SIZE + n
                     /\ IntOk(prefix)
                     /\ IntOf(prefix) = n

\* ------------------------------------------------------ the message parser
ParseAlphabet == {"#", "@", "/", "a"}

\* run_diagnostics, line 161: parse_message applied to a message
ParseCall(s) ==
    /\ pc[s] = "call_parse"
    /\ parsed_data' = [parsed_data EXCEPT ![s] = parse_message(raw_message[s])]
    /\ pc' = [pc EXCEPT ![s] = "parsed"]
    /\ UNCHANGED <<sockVars, peerVars, recvVars, raw_message, command,
                   response, logVars, artifact>>

InitParse ==
    /\ pc = [s \in Sessions |-> IF s = 1 THEN "call_parse" ELSE "unborn"]
    /\ transport = [s \in Sessions |-> "open"]
    /\ closes = [s \in Sessions |-> 0]
    /\ listener = "listening"
    /\ inbuf = [s \in Sessions |-> <<>>]
    /\ peerClosed = [s \in Sessions |-> FALSE]
    /\ peerSent = [s \in Sessions |-> NoneVal]
    /\ nOps = [s \in Sessions |-> 0]
    /\ length_prefix_bytes = [s \in Sessions |-> <<>>]
    /\ expected_length = [s \in Sessions |-> 0]
    /\ chunks = [s \in Sessions |-> <<>>]
    /\ \E message \in SeqsUpTo(ParseAlphabet, MaxMsgLen) :
         raw_message = [s \in Sessions |-> IF s = 1 THEN message ELSE NoneVal]
    /\ parsed_data = [s \in Sessions |-> NoParsed]
    /\ command = [s \in Sessions |-> <<>>]
    /\ response = [s \in Sessions |-> NoResponse]
    /\ sent = [s \in Sessions |-> <<>>]
    /\ invoked = [s \in Sessions |-> <<>>]
    /\ artifact = Absent

NextParse == \E s \in Sessions : ParseCall(s)

SpecParse == InitParse /\ [][NextParse]_vars

\* ---------------------------------------------------------------------
\* create_response_message followed by parse_message
\* ---------------------------------------------------------------------
FieldAlphabet == {"#", "@", "a"}
ListElements == {<<>>, <<"a">>, <<"/">>, <<"@">>, <<"#", "@">>}

\* the data argument: a str, or a list of str
StrPayloads == {StrData(str) : str \in SeqsUpTo(ParseAlphabet, MaxPayloadLen)}
ListPayloads == {ListData(items) : items \in SeqsUpTo(ListElements, MaxParams)}

\* create_response_message applied to the arguments held in response[s]
CreateResponseCall(s) ==
    /\ pc[s] = "call_create"
    /\ raw_message' = [raw_message EXCEPT ![s] =
            create_response_message(response[s].status, response[s].dtype,
                                    response[s].data)]
    /\ pc' = [pc EXCEPT ![s] = "call_parse"]
    /\ UNCHANGED <<sockVars, peerVars, recvVars, parsed_data, command,
                   response, logVars, artifact>>

InitRoundTrip ==
    /\ pc = [s \in Sessions |-> IF s = 1 THEN "call_create" ELSE "unborn"]
    /\ transport = [s \in Sessions |-> "open"]
    /\ closes = [s \in Sessions |-> 0]
    /\ listener = "listening"
    /\ inbuf = [s \in Sessions |-> <<>>]
    /\ peerClosed = [s \in Sessions |-> FALSE]
    /\ peerSent = [s \in Sessions |-> NoneVal]
    /\ nOps = [s \in Sessions |-> 0]
    /\ length_prefix_bytes = [s \in Sessions |-> <<>>]
    /\ expected_length = [s \in Sessions |-> 0]
    /\ chunks = [s \in Sessions |-> <<>>]
    /\ raw_message = [s \in Sessions |-> NoneVal]
    /\ parsed_data = [s \in Sessions |-> NoParsed]
    /\ command = [s \in Sessions |-> <<>>]
    /\ \E status \in SeqsUpTo(FieldAlphabet, MaxFieldLen),
          data_type \in SeqsUpTo(FieldAlphabet, MaxFieldLen) :
         \/ \E data \in StrPayloads :
              response = [s \in Sessions |->
                            IF s = 1 THEN Resp(status, data_type, data)
                            ELSE NoResponse]
         \/ \E data \in ListPayloads :
              response = [s \in Sessions |->
                            IF s = 1 THEN Resp(status, data_type, data)
                            ELSE NoResponse]
    /\ sent = [s \in Sessions |-> <<>>]
    /\ invoked = [s \in Sessions |-> <<>>]
    /\ artifact = Absent

NextRoundTrip ==
    \E s \in Sessions :
        \/ CreateResponseCall(s)
        \/ ParseCall(s)

SpecRoundTrip == InitRoundTrip /\ [][NextRoundTrip]_vars

\* ---------------------------------------------------------------------
\* create_command_message followed by parse_message
\* ---------------------------------------------------------------------

\* create_command_message applied to the arguments of the call: command[s]
\* holds the name and response[s].data the parameter list
CreateCommandCall(s) ==
    /\ pc[s] = "call_create"
    /\ \E timestamp \in Timestamps :
         raw_message' = [raw_message EXCEPT ![s] =
            create_command_message(command[s], response[s].data.v, timestamp)]
    /\ pc' = [pc EXCEPT ![s] = "call_parse"]
    /\ UNCHANGED <<sockVars, peerVars, recvVars, parsed_data, command,
                   response, logVars, artifact>>

InitCommandTrip ==
    /\ pc = [s \in Sessions |-> IF s = 1 THEN "call_create" ELSE "unborn"]
    /\ transport = [s \in Sessions |-> "open"]
    /\ closes = [s \in Sessions |-> 0]
    /\ listener = "listening"
    /\ inbuf = [s \in Sessions |-> <<>>]
    /\ peerClosed = [s \in Sessions |-> FALSE]
    /\ peerSent = [s \in Sessions |-> NoneVal]
    /\ nOps = [s \in Sessions |-> 0]
    /\ length_prefix_bytes = [s \in Sessions |-> <<>>]
    /\ expected_length = [s \in Sessions |-> 0]
    /\ chunks = [s \in Sessions |-> <<>>]
    /\ raw_message = [s \in Sessions |-> NoneVal]
    /\ parsed_data = [s \in Sessions |-> NoParsed]
    /\ \E name \in SeqsUpTo(FieldAlphabet, MaxFieldLen),
          params \in SeqsUpTo(ListElements, MaxParams) :
         /\ command = [s \in Sessions |-> IF s = 1 THEN name ELSE <<>>]
         /\ response = [s \in Sessions |->
                          IF s = 1 THEN Resp(<<>>, <<>>, ListData(params))
                          ELSE NoResponse]
    /\ sent = [s \in Sessions |-> <<>>]
    /\ invoked = [s \in Sessions |-> <<>>]
    /\ artifact = Absent

NextCommandTrip ==
    \E s \in Sessions :
        \/ CreateCommandCall(s)
        \/ ParseCall(s)

SpecCommandTrip == InitCommandTrip /\ [][NextCommandTrip]_vars

\* ------------------------------------------------------------------ claims
\* the frame one send_message call wrote: a prefix of LENGTH_FIELD_SIZE
\* digits stating the number of bytes after it
WellFramed(bytes) ==
    /\ Len(bytes) >= LENGTH_FIELD_SIZE
    /\ IntOk(SubSeq(bytes, 1, LENGTH_FIELD_SIZE))
    /\ IntOf(SubSeq(bytes, 1, LENGTH_FIELD_SIZE))
         = Len(bytes) - LENGTH_FIELD_SIZE

PayloadOf(bytes) == Decode(SubSeq(bytes, LENGTH_FIELD_SIZE + 1, Len(bytes))).v

\* bytes is a frame carrying exactly the text
IsFrame(bytes, text) == WellFramed(bytes) /\ PayloadOf(bytes) = text

StartsWith(str, pre) ==
    Len(str) >= Len(pre) /\ SubSeq(str, 1, Len(pre)) = pre

IsErrorText(bytes) ==
    WellFramed(bytes) /\ StartsWith(PayloadOf(bytes), <<"E", "R", "R", "O", "R", "#", "@", "T", "E", "X", "T", "#", "@">>)

\* positions where the delimiter occurs in a text
Occurrences(text) ==
    {i \in 1..(Len(text) - 1) : text[i] = "#" /\ text[i + 1] = "@"}

LeastOf(set) == CHOOSE i \in set : \A j \in set : i <= j

\* the loop body of the session ran up to its RESPOND step for the command
HandlerReturned(s) == response[s].status # <<>>

\* a handler was called and returned nothing to the loop
HandlerFailed(s) ==
    /\ invoked[s] # <<>>
    /\ ~HandlerReturned(s)
    /\ pc[s] \notin {"photo_size", "photo_raw", "photo_final"}

\* C3: when an exception escapes a dispatched handler, the session sends
\* exactly one framed ERROR/TEXT response for the command and goes back to
\* awaiting the next frame; the failure does not terminate the session.
C3_HandlerFailureAnswered ==
    \A s \in Sessions :
        HandlerFailed(s) =>
            /\ pc[s] = "recv_prefix"
            /\ Len(sent[s]) = 1
            /\ IsErrorText(sent[s][1])

\* C4: a command whose upper-cased name is no key of COMMAND_HANDLERS invokes
\* no handler, gets exactly one framed ERROR/TEXT response that names the
\* command (written whenever the transport accepts it), and leaves the
\* session open and awaiting the next frame.
C4_UnknownCommand ==
    \A s \in Sessions :
        (HandlerReturned(s) /\ command[s] \notin COMMAND_HANDLERS) =>
            /\ invoked[s] = <<>>
            /\ transport[s] # "closed"
            /\ \/ pc[s] = "respond" /\ sent[s] = <<>>
               \/ /\ pc[s] = "recv_prefix"
                  /\ Len(sent[s]) <= 1
                  /\ transport[s] = "open" => Len(sent[s]) = 1
                  /\ Len(sent[s]) = 1 =>
                        IsFrame(sent[s][1],
                                <<"E", "R", "R", "O", "R", "#", "@", "T", "E", "X", "T", "#", "@", "U", "n", "k", "n", "o", "w", "n", " ", "c", "o", "m", "m", "a", "n", "d", ":", " ">>
                                \o Upper(parsed_data[s].command))

C4_Witness ==
    \E s \in Sessions :
        /\ pc[s] = "recv_prefix"
        /\ parsed_data[s].command = <<"f", "o", "o">>
        /\ Len(sent[s]) = 1

\* receive_message returned a text with fewer than three fields
ShortFrameReceived(s) ==
    /\ raw_message[s] # NoneVal
    /\ Cardinality(Occurrences(raw_message[s])) < 2

\* C5: every completely received frame whose payload has fewer than three
\* fields, the empty payload included, is answered with one framed ERROR/TEXT
\* response and never terminates the session.
C5_ParseErrorAnswered ==
    \A s \in Sessions :
        ShortFrameReceived(s) =>
            /\ pc[s] # "closed"
            /\ (pc[s] = "recv_prefix" /\ transport[s] = "open") =>
                    (Len(sent[s]) = 1 /\ IsErrorText(sent[s][1]))

\* C6: parse_message returns the fixed ERROR/TEXT sentinel for every text
\* with fewer than two delimiters, and for every other text the fields cut
\* at the first two delimiters only: the third field keeps later delimiters
\* and is handed over split at the parameter separator.
C6_ParseMessage ==
    \A s \in Sessions :
        pc[s] = "parsed" =>
            LET m == raw_message[s]
                occ == Occurrences(m)
                r == parsed_data[s]
            IN  IF Cardinality(occ) < 2
                THEN /\ r.command = <<"E", "R", "R", "O", "R">>
                     /\ r.type = <<"T", "E", "X", "T">>
                     /\ r.params = <<<<"I", "n", "v", "a", "l", "i", "d", " ", "p", "r", "o", "t", "o", "c", "o", "l", " ", "f", "o", "r", "m", "a", "t", ".">>>>
                ELSE LET i1 == LeastOf(occ)
                         i2 == LeastOf(occ \ {i1})
                     IN  /\ r.command = SubSeq(m, 1, i1 - 1)
                         /\ r.type = SubSeq(m, i1 + 2, i2 - 1)
                         /\ join(<<"/">>, r.params) = SubSeq(m, i2 + 2, Len(m))
                         /\ \A i \in 1..Len(r.params) :
                                \A j \in 1..Len(r.params[i]) :
                                    r.params[i][j] # "/"

C6_Witness ==
    \E s \in Sessions :
        /\ pc[s] = "parsed"
        /\ raw_message[s] = <<"#", "@", "#", "@", "#", "@">>
        /\ parsed_data[s].params = <<<<"#", "@">>>>

\* C7: when a handler returned COMPLETED_RESPONSE, the RESPOND step of the
\* loop writes nothing: the writes for the command are the handler's own.
C7_NoSecondResponse ==
    [][\A s \in Sessions :
        (pc[s] = "respond" /\ response[s].status = <<"C", "O", "M", "P", "L", "E", "T", "E", "D", "_", "R", "E", "S", "P", "O", "N", "S", "E">>)
            => sent'[s] = sent[s]]_vars

C7_Witness ==
    \E s \in Sessions :
        /\ pc[s] = "recv_prefix"
        /\ response[s].status = <<"C", "O", "M", "P", "L", "E", "T", "E", "D", "_", "R", "E", "S", "P", "O", "N", "S", "E">>
        /\ Len(sent[s]) = 3

\* C8: SEND_PHOTO handled while the artifact exists with N bytes and the
\* transport accepts the writes: the writes for the command are exactly one
\* FILE/SIZE frame with the decimal string of N, the N raw bytes, and one
\* OK/TEXT frame, in this order.
C8_TransferSequence ==
    \A s \in Sessions :
        (/\ command[s] = <<"S", "E", "N", "D", "_", "P", "H", "O", "T", "O">>
         /\ HandlerReturned(s)
         /\ artifact.exists
         /\ transport[s] = "open") =>
            /\ Len(sent[s]) = 3
            /\ IsFrame(sent[s][1],
                       <<"F", "I", "L", "E", "#", "@", "S", "I", "Z", "E", "#", "@">> \o DecStr(Len(artifact.bytes)))
            /\ sent[s][2] = artifact.bytes
            /\ IsFrame(sent[s][3],
                       <<"O", "K", "#", "@", "T", "E", "X", "T", "#", "@", "F", "i", "l", "e", " ", "s", "c", "r", "e", "e", "n", "s", "h", "o", "t", ".", "j", "p", "g", " ", "s", "e", "n", "t", " ", "s", "u", "c", "c", "e", "s", "s", "f", "u", "l", "l", "y", ".">>)

C8_Witness ==
    \E s \in Sessions :
        /\ command[s] = <<"S", "E", "N", "D", "_", "P", "H", "O", "T", "O">>
        /\ pc[s] = "recv_prefix"
        /\ Len(artifact.bytes) = 2
        /\ Len(sent[s]) = 3

\* C9: SEND_PHOTO handled while the artifact does not exist: the handler
\* returns COMPLETED_RESPONSE, the only write for the command is one framed
\* ERROR/TEXT response (written whenever the transport accepts it), no
\* FILE/SIZE frame and no raw bytes, and the session stays open.
C9_ArtifactAbsent ==
    \A s \in Sessions :
        (/\ command[s] = <<"S", "E", "N", "D", "_", "P", "H", "O", "T", "O">>
         /\ HandlerReturned(s)
         /\ ~artifact.exists) =>
            /\ response[s].status = <<"C", "O", "M", "P", "L", "E", "T", "E", "D", "_", "R", "E", "S", "P", "O", "N", "S", "E">>
            /\ pc[s] \in {"respond", "recv_prefix"}
            /\ transport[s] # "closed"
            /\ Len(sent[s]) <= 1
            /\ transport[s] = "open" => Len(sent[s]) = 1
            /\ Len(sent[s]) = 1 =>
                  IsFrame(sent[s][1],
                    <<"E", "R", "R", "O", "R", "#", "@", "T", "E", "X", "T", "#", "@", "S", "c", "r", "e", "e", "n", "s", "h", "o", "t", " ", "n", "o", "t", " ", "f", "o", "u", "n", "d", ".", " ", "R", "u", "n", " ", "S", "C", "R", "E", "E", "N", "S", "H", "O", "T", " ", "f", "i", "r", "s", "t", ".">>)

C9_Witness ==
    \E s \in Sessions :
        /\ command[s] = <<"S", "E", "N", "D", "_", "P", "H", "O", "T", "O">>
        /\ pc[s] = "recv_prefix"
        /\ ~artifact.exists
        /\ Len(sent[s]) = 1

\* EXIT in any letter case
IsExit(name) ==
    /\ Len(name) = 4
    /\ name[1] \in {"E", "e"}
    /\ name[2] \in {"X", "x"}
    /\ name[3] \in {"I", "i"}
    /\ name[4] \in {"T", "t"}

\* C10: the terminate command, EXIT in any letter case, gets its OK/TEXT
\* acknowledgment (written whenever the transport accepts it), then the
\* session closes the transport and leaves the loop; from then on the session
\* reads and writes nothing on the connection, which stays closed.
C10_ExitCloses ==
    [][\A s \in Sessions :
        /\ (pc[s] = "dispatch" /\ IsExit(parsed_data[s].command))
              => pc'[s] \in {"dispatch", "respond"}
        /\ (pc[s] = "respond" /\ IsExit(parsed_data[s].command)) =>
              /\ pc'[s] \in {"respond", "closed"}
              /\ pc'[s] = "closed" =>
                    /\ transport'[s] = "closed"
                    /\ Len(sent'[s]) <= 1
                    /\ transport[s] = "open" =>
                          /\ Len(sent'[s]) = 1
                          /\ IsFrame(sent'[s][1],
                                     <<"O", "K", "#", "@", "T", "E", "X", "T", "#", "@", "C", "o", "n", "n", "e", "c", "t", "i", "o", "n", " ", "c", "l", "o", "s", "i", "n", "g", ".">>)
        /\ pc[s] = "closed" =>
              /\ pc'[s] = "closed"
              /\ transport'[s] = "closed"
              /\ sent'[s] = sent[s]
              /\ raw_message'[s] = raw_message[s]
              /\ Len(inbuf'[s]) >= Len(inbuf[s])]_vars

C10_Witness ==
    \E s \in Sessions :
        /\ pc[s] = "closed"
        /\ parsed_data[s].command = <<"e", "x", "i", "t">>
        /\ Len(sent[s]) = 1
        /\ inbuf[s] # <<>>

\* ---------------------------------------------------------------------
\* Exit paths of handle_client (server.py lines 33-69)
\* ---------------------------------------------------------------------

\* The step that leaves the loop of session s.
Terminates(s) == pc[s] # "closed" /\ pc'[s] = "closed"

\* C11: on every exit path of a session (EXIT, no frame received,
\* transport error, handler failure, failure before the loop) the
\* session's socket is closed exactly once, and nothing is written on it
\* once the loop has been left: a session is terminated exactly when its
\* socket has been closed once, it is never closed a second time, an
\* exit that is not the EXIT command writes nothing in its last step, and
\* a terminated session stays terminated and writes nothing.
C11_ClosedExactlyOnce ==
    [][\A s \in Sessions :
          /\ closes'[s] \in {0, 1}
          /\ (pc'[s] = "closed") = (closes'[s] = 1)
          /\ (transport'[s] = "closed") = (closes'[s] = 1)
          /\ (Terminates(s) /\ pc[s] # "respond") => sent'[s] = sent[s]
          /\ pc[s] = "closed" =>
                /\ pc'[s] = "closed"
                /\ sent'[s] = sent[s]
                /\ closes'[s] = closes[s]]_vars

\* A session that left the loop because its handler raised (the socket
\* is closed once and the peer is still connected).
C11_Witness ==
    \E s \in Sessions :
        /\ pc[s] = "closed"
        /\ closes[s] = 1
        /\ HandlerFailed(s)
        /\ ~peerClosed[s]

\* The response of lines 57-59 is about to be written on a socket that
\* the peer has reset: sendall raises inside send_message.
WriteFails(s) ==
    /\ pc[s] = "respond"
    /\ response[s].status # COMPLETED_RESPONSE
    /\ transport[s] = "broken"

\* C12: when writing a response frame fails with a transport error, the
\* session terminates in that step: the socket is closed and the loop is
\* left without going back to receive another frame.
C12_WriteFailureTerminates ==
    [][\A s \in Sessions :
          (WriteFails(s) /\ pc'[s] # pc[s]) =>
              /\ pc'[s] = "closed"
              /\ transport'[s] = "closed"]_vars

\* ---------------------------------------------------------------------
\* The listener (server.py lines 88-117) with its sessions
\* ---------------------------------------------------------------------

\* lines 98-100: accept() returns the next connection and a thread is
\* started that runs handle_client on it
Accept(s) ==
    /\ listener = "listening"
    /\ pc[s] = "unborn"
    /\ \A t \in Sessions : t < s => pc[t] # "unborn"
    /\ pc' = [pc EXCEPT ![s] = "start"]
    /\ UNCHANGED <<sockVars, peerVars, recvVars, loopVars, logVars, artifact>>

\* line 98: accept() raises for one connection (it was aborted, or no
\* descriptor is left).  Nothing in accept_connections catches it: it
\* leaves the while loop, main catches it at line 112 and closes the
\* server socket at line 117.  The session threads go on.
AcceptFails ==
    /\ listener = "listening"
    /\ listener' = "stopped"
    /\ UNCHANGED <<pc, transport, closes, peerVars, recvVars, loopVars,
                   logVars, artifact>>

\* What the clients of the server send: a command whose handler may
\* raise, the command that ends a session, a text that is no command,
\* and a frame whose prefix is not a number.
ServerMessages ==
    { create_command_message(<<"D", "I", "R">>, <<>>, <<"1", "7">>),
      create_command_message(<<"E", "X", "I", "T">>, <<>>, <<"1", "7">>),
      <<"X">> }

ServerRawWrites == {<<"a", "b">>}

\* The clients' frames arrive one after another: client s writes, or
\* resets its connection, only while no other session has bytes to read,
\* and all the clients together write at most MaxPeerOps times.  Receiving
\* touches only the session's own buffer, so the order of two sessions'
\* receive steps is immaterial; parsing, the handlers, the responses and
\* the closing of different sessions interleave freely.
ClientTurn(s) ==
    LET RECURSIVE Total(_)
        Total(n) == IF n = 0 THEN 0 ELSE nOps[n] + Total(n - 1)
    IN  /\ Total(NumSessions) < MaxPeerOps
        /\ \A t \in Sessions \ {s} :
              inbuf[t] = <<>> /\ pc[t] # "recv_body"

InitServer ==
    /\ InitSessions({}, "start")
    /\ artifact = Absent

NextServer ==
    \/ \E s \in Sessions : Accept(s)
    \/ AcceptFails
    \/ \E s \in Sessions :
        \/ Start(s)
        \/ RecvPrefix(s)
        \/ RecvChunk(s)
        \/ Parse(s)
        \/ Dispatch(s)
        \/ Respond(s)
        \/ ClientTurn(s) /\ PeerSendMessage(s, ServerMessages)
        \/ ClientTurn(s) /\ PeerWriteRaw(s, ServerRawWrites)
        \/ ClientTurn(s) /\ PeerReset(s)

SpecServer == InitServer /\ [][NextServer]_vars

\* Sessions that use the scratch file of handle_screenshot and
\* handle_send_photo at the same time.
RaceCommands ==
    { create_command_message(<<"S", "C", "R", "E", "E", "N", "S", "H", "O", "T">>, <<>>, <<"1", "7">>),
      create_command_message(<<"S", "E", "N", "D", "_", "P", "H", "O", "T", "O">>, <<>>, <<"1", "7">>) }

\* the scratch file is absent, or an earlier run has left one
InitRace ==
    /\ InitSessions({}, "start")
    /\ artifact \in {Absent, File(<<"x">>)}

NextRace ==
    \/ \E s \in Sessions : Accept(s)
    \/ \E s \in Sessions :
        \/ Start(s)
        \/ RecvPrefix(s)
        \/ RecvChunk(s)
        \/ Parse(s)
        \/ Dispatch(s)
        \/ PhotoSize(s)
        \/ PhotoRaw(s)
        \/ PhotoFinal(s)
        \/ Respond(s)
        \/ ClientTurn(s) /\ PeerSendMessage(s, RaceCommands)

SpecRace == InitRace /\ [][NextRace]_vars

\* ---------------------------------------------------------------------
\* The listener and its sessions
\* ---------------------------------------------------------------------

\* C13: a failure to accept one connection does not stop the accept
\* loop: a listener that is listening is still listening after every
\* step (no step of this model is a shutdown of the server).
C13_ListenerKeepsRunning ==
    [][listener = "listening" => listener' = "listening"]_vars

\* everything that belongs to session t
SessionState(t) ==
    <<pc[t], transport[t], closes[t], inbuf[t], length_prefix_bytes[t],
      expected_length[t],
      chunks[t], raw_message[t], parsed_data[t], command[t], response[t],
      sent[t], invoked[t]>>

\* C14: with several sessions running, the step in which one session
\* fails or terminates (transport error, malformed frame, handler
\* failure, EXIT) leaves the listener as it was and changes nothing of
\* any other session: not its position, not its socket, not what has
\* been written on it.
C14_SessionsIsolated ==
    [][\A s \in Sessions :
          Terminates(s) =>
              /\ listener' = listener
              /\ \A t \in Sessions \ {s} :
                    SessionState(t)' = SessionState(t)]_vars

\* One session has ended on a failure while another one, accepted
\* before or after it, is in the middle of a command and the listener
\* is still listening.
C14_Witness ==
    \E s, t \in Sessions :
        /\ s # t
        /\ pc[s] = "closed"
        /\ HandlerFailed(s) \/ raw_message[s] = NoneVal
        /\ pc[t] \in {"dispatch", "respond"}
        /\ transport[t] = "open"
        /\ listener = "listening"

\* ---------------------------------------------------------------------
\* Round trips of the message constructors
\* ---------------------------------------------------------------------
HasDelimiter(str) == Occurrences(str) # {}

\* the string form of a payload: '/'.join(data) or str(data)
StringForm(data) ==
    IF data.list THEN join(PARAM_SEPARATOR, data.v) ELSE data.v

\* C15: for every (status, type, payload) whose status and type contain
\* no delimiter, parsing the created response message gives back status
\* and type exactly, and the parameter list joined with the separator is
\* the payload's string form: a delimiter inside the payload is kept
\* verbatim and starts no further field.
C15_ResponseRoundTrip ==
    \A s \in Sessions :
        (/\ pc[s] = "parsed"
         /\ ~HasDelimiter(response[s].status)
         /\ ~HasDelimiter(response[s].dtype)) =>
            /\ parsed_data[s].command = response[s].status
            /\ parsed_data[s].type = response[s].dtype
            /\ join(PARAM_SEPARATOR, parsed_data[s].params)
                 = StringForm(response[s].data)

\* status ends with the first character of the delimiter, type starts
\* with its second one and the payload holds a whole delimiter
C15_Witness ==
    \E s \in Sessions :
        /\ pc[s] = "parsed"
        /\ response[s] = Resp(<<"a", "#">>, <<"@">>, StrData(<<"#", "@", "a">>))
        /\ raw_message[s] = <<"a", "#", "#", "@", "@", "#", "@", "#", "@", "a">>
        /\ parsed_data[s].params = <<<<"#", "@", "a">>>>

\* ---------------------------------------------------------------------
\* Missing parameters
\* ---------------------------------------------------------------------

\* The command of session s came without the parameters it needs: no
\* parameter on the wire is the one-element list [''].
MissingParams(s) ==
    \/ /\ command[s] \in {<<"D", "E", "L", "E", "T", "E">>, <<"E", "X", "E", "C", "U", "T", "E">>}
       /\ parsed_data[s].params = <<<<>>>>
    \/ /\ command[s] = <<"C", "O", "P", "Y">>
       /\ Len(parsed_data[s].params) < 2

MissingText(cmd) ==
    IF cmd = <<"D", "E", "L", "E", "T", "E">> THEN <<"M", "i", "s", "s", "i", "n", "g", " ", "f", "i", "l", "e", " ", "p", "a", "t", "h", ".">>
    ELSE IF cmd = <<"E", "X", "E", "C", "U", "T", "E">> THEN <<"M", "i", "s", "s", "i", "n", "g", " ", "p", "r", "o", "g", "r", "a", "m", " ", "p", "a", "t", "h", ".">>
    ELSE <<"M", "i", "s", "s", "i", "n", "g", " ", "s", "o", "u", "r", "c", "e", " ", "o", "r", " ", "d", "e", "s", "t", "i", "n", "a", "t", "i", "o", "n", " ", "p", "a", "t", "h", ".">>

\* C16: a DELETE or EXECUTE command with no parameter, or a COPY command
\* with fewer than two, gets exactly one framed ERROR/TEXT response that
\* names what is missing (written whenever the transport accepts it); the
\* handler returns before its file or process operation, so the result
\* is never the outcome of one and the scratch file is untouched; the
\* session stays open and awaits the next frame.
C16_MissingParameter ==
    \A s \in Sessions :
        (HandlerReturned(s) /\ MissingParams(s)) =>
            /\ invoked[s] = <<command[s]>>
            /\ response[s] = Resp(<<"E", "R", "R", "O", "R">>, <<"T", "E", "X", "T">>,
                                  StrData(MissingText(command[s])))
            /\ transport[s] # "closed"
            /\ \/ pc[s] = "respond" /\ sent[s] = <<>>
               \/ /\ pc[s] = "recv_prefix"
                  /\ Len(sent[s]) <= 1
                  /\ transport[s] = "open" => Len(sent[s]) = 1
                  /\ Len(sent[s]) = 1 =>
                        IsFrame(sent[s][1],
                                <<"E", "R", "R", "O", "R", "#", "@", "T", "E", "X", "T", "#", "@">> \o MissingText(command[s]))

C16_Witness ==
    \E s \in Sessions :
        /\ pc[s] = "recv_prefix"
        /\ command[s] = <<"D", "E", "L", "E", "T", "E">>
        /\ parsed_data[s].params = <<<<>>>>
        /\ Len(sent[s]) = 1
        /\ IsFrame(sent[s][1], <<"E", "R", "R", "O", "R", "#", "@", "T", "E", "X", "T", "#", "@", "M", "i", "s", "s", "i", "n", "g", " ", "f", "i", "l", "e", " ", "p", "a", "t", "h", ".">>)

\* ---------------------------------------------------------------------
\* One command at a time
\* ---------------------------------------------------------------------

\* the session is inside receive_message, or between it and the parse
Receiving(s) == pc[s] \in {"recv_prefix", "recv_body", "received"}

\* C17: a session is strictly half-duplex.  It starts to receive the
\* next frame only from the end of the RESPOND step of the previous one
\* (or from the start of the session); while it receives it writes
\* nothing and calls no handler; a handler is called only in the
\* DISPATCH step, and at most one handler is called for a frame.
C17_HalfDuplex ==
    [][\A s \in Sessions :
          /\ (pc'[s] = "recv_prefix" /\ pc[s] # "recv_prefix") =>
                pc[s] \in {"start", "respond"}
          /\ Receiving(s) =>
                /\ sent'[s] \in {sent[s], <<>>}
                /\ invoked'[s] \in {invoked[s], <<>>}
          /\ (invoked'[s] # invoked[s] /\ invoked'[s] # <<>>) =>
                pc[s] = "dispatch"
          /\ Len(invoked'[s]) <= 1
          /\ (sent'[s] # sent[s] /\ sent'[s] # <<>>) =>
                pc[s] \in {"dispatch", "photo_size", "photo_raw",
                           "photo_final", "respond"}]_vars

\* the whole transfer sequence has been written and the session is
\* back at the top of the loop
C17_Witness ==
    \E s \in Sessions :
        /\ pc[s] = "recv_prefix"
        /\ invoked[s] = <<<<"S", "E", "N", "D", "_", "P", "H", "O", "T", "O">>>>
        /\ Len(sent[s]) = 3

\* ---------------------------------------------------------------------
\* Failures inside the transfer sequence
\* ---------------------------------------------------------------------

\* the step of handle_send_photo that session s is about to take fails:
\* the file is gone, or the socket does not take the write
StepFails(s) ==
    \/ /\ pc[s] \in {"photo_size", "photo_raw"}
       /\ ~artifact.exists
    \/ /\ pc[s] \in {"photo_size", "photo_raw", "photo_final"}
       /\ transport[s] # "open"

\* C18: when step 2, 3 or 4 of SEND_PHOTO fails, the handler goes on to
\* no later step of the sequence: it leaves the sequence with the
\* self-delivered sentinel, and an ERROR/TEXT frame is what it writes
\* (whenever the transport accepts it).
C18_FailedStepSubstituted ==
    [][\A s \in Sessions :
          (StepFails(s) /\ pc'[s] # pc[s]) =>
              /\ pc'[s] = "respond"
              /\ response'[s] = SelfDelivered
              /\ transport[s] = "open" =>
                    /\ Len(sent'[s]) = Len(sent[s]) + 1
                    /\ IsErrorText(sent'[s][Len(sent'[s])])]_vars

\* ---------------------------------------------------------------------
\* The scratch file shared by the sessions
\* ---------------------------------------------------------------------

\* Session s has just written the raw bytes (step 3): its first write was
\* the FILE/SIZE frame and its second one the bytes.
BytesWritten(s) ==
    /\ pc[s] = "photo_final"
    /\ Len(sent[s]) = 2
    /\ StartsWith(PayloadOf(sent[s][1]), <<"F", "I", "L", "E", "#", "@", "S", "I", "Z", "E", "#", "@">>)

\* the number announced in the FILE/SIZE frame
AnnouncedSize(s) ==
    LET text == PayloadOf(sent[s][1])
    IN  IntOf(SubSeq(text, Len(<<"F", "I", "L", "E", "#", "@", "S", "I", "Z", "E", "#", "@">>) + 1, Len(text)))

\* C19: in a session that runs alone (no other connection has been
\* accepted) the size announced in step 2 of SEND_PHOTO is the number of
\* raw bytes written in step 3.  With a second session this fails: see
\* C19_Witness, where a SCREENSHOT of another session has rewritten the
\* file between the two steps.
C19_AloneSizeMatches ==
    \A s \in Sessions :
        (/\ BytesWritten(s)
         /\ \A t \in Sessions \ {s} : pc[t] = "unborn") =>
            AnnouncedSize(s) = Len(sent[s][2])

\* the interleaving of the race: the bytes written are not as many as
\* announced, and another session has handled SCREENSHOT
C19_Witness ==
    \E s, t \in Sessions :
        /\ s # t
        /\ BytesWritten(s)
        /\ AnnouncedSize(s) # Len(sent[s][2])
        /\ invoked[t] = <<<<"S", "C", "R", "E", "E", "N", "S", "H", "O", "T">>>>

\* ---------------------------------------------------------------------
\* What is on the wire
\* ---------------------------------------------------------------------
WireStatuses == {<<"O", "K">>, <<"E", "R", "R", "O", "R">>, <<"F", "I", "L", "E">>}
WireTypes == {<<"T", "E", "X", "T">>, <<"L", "I", "S", "T">>, <<"S", "I", "Z", "E">>}

\* entry i of sent[s] is the unframed file content of a transfer: the
\* write that follows the FILE/SIZE frame when step 3 succeeded
IsRawBytes(s, i) ==
    /\ i = 2
    /\ invoked[s] = <<<<"S", "E", "N", "D", "_", "P", "H", "O", "T", "O">>>>
    /\ StartsWith(PayloadOf(sent[s][1]), <<"F", "I", "L", "E", "#", "@", "S", "I", "Z", "E", "#", "@">>)
    /\ ~IsErrorText(sent[s][2])

\* a frame whose payload has a status and a type of the protocol
IsWireResponse(bytes) ==
    /\ WellFramed(bytes)
    /\ Cardinality(Occurrences(PayloadOf(bytes))) >= 2
    /\ parse_message(PayloadOf(bytes)).command \in WireStatuses
    /\ parse_message(PayloadOf(bytes)).type \in WireTypes

\* C20: every frame the server has written on a connection has a status
\* in {OK, ERROR, FILE} and a type in {TEXT, LIST, SIZE}; in particular
\* no frame carries the sentinel COMPLETED_RESPONSE as its status.
C20_WireStatuses ==
    \A s \in Sessions :
        \A i \in 1..Len(sent[s]) :
            IsRawBytes(s, i) \/ IsWireResponse(sent[s][i])

\* a handler has returned the sentinel, the loop has passed its RESPOND
\* step, and what was written starts with a FILE/SIZE frame
C20_Witness ==
    \E s \in Sessions :
        /\ pc[s] = "recv_prefix"
        /\ response[s].status = COMPLETED_RESPONSE
        /\ sent[s] # <<>>
        /\ parse_message(PayloadOf(sent[s][1])).command = <<"F", "I", "L", "E">>

\* ---------------------------------------------------------------------
\* Receiving yields no frame
\* ---------------------------------------------------------------------

\* what handle_client tests at line 41: `not raw_message`
NoFrame(s) == raw_message[s] = NoneVal \/ raw_message[s] = <<>>

\* What the receive_message call of session s has read is no frame: the
\* peer closed before a prefix, the prefix has fewer than
\* LENGTH_FIELD_SIZE bytes or is no decimal number, or the payload is
\* shorter than announced.
FramingError(s) ==
    \/ Len(length_prefix_bytes[s]) < LENGTH_FIELD_SIZE
    \/ ~Decode(length_prefix_bytes[s]).ok
    \/ ~IntOk(Decode(length_prefix_bytes[s]).v)
    \/ Len(chunks[s]) < expected_length[s]

\* C21: a receive that meets a framing error (peer closed before a
\* prefix, truncated prefix, payload truncated by a close, prefix that is
\* no decimal number) yields no frame; and when no frame is yielded the
\* next step of the session is its termination: nothing has been or is
\* written for it, the read is not tried again, the socket is closed.
C21_NoFrameTerminates ==
    [][\A s \in Sessions :
          /\ (pc[s] # "received" /\ pc'[s] = "received" /\ FramingError(s)') =>
                NoFrame(s)'
          /\ (pc[s] = "received" /\ NoFrame(s) /\ pc'[s] # pc[s]) =>
                /\ pc'[s] = "closed"
                /\ transport'[s] = "closed"
                /\ sent[s] = <<>>
                /\ sent'[s] = <<>>]_vars

\* no element of the list holds the parameter separator
NoSeparator(list) ==
    \A i \in 1..Len(list) : \A j \in 1..Len(list[i]) : list[i][j] # "/"

\* C22: for every command name without a delimiter and every parameter
\* list whose elements hold no separator, parsing the created command
\* message gives back the name as command, and as params the list itself
\* when it is not empty and the one-element list [''] when it is empty.
C22_CommandRoundTrip ==
    \A s \in Sessions :
        (/\ pc[s] = "parsed"
         /\ ~HasDelimiter(command[s])
         /\ NoSeparator(response[s].data.v)) =>
            /\ parsed_data[s].command = command[s]
            /\ parsed_data[s].type \in Timestamps
            /\ parsed_data[s].params =
                 IF response[s].data.v = <<>> THEN <<<<>>>>
                 ELSE response[s].data.v

\* an empty parameter list has come back as [''], under a name that ends
\* with the first character of the delimiter
C22_Witness ==
    \E s \in Sessions :
        /\ pc[s] = "parsed"
        /\ command[s] = <<"a", "#">>
        /\ response[s].data.v = <<>>
        /\ raw_message[s] = <<"a", "#", "#", "@", "1", "7", "#", "@">>
        /\ parsed_data[s].params = <<<<>>>>

====
